---- MODULE Spec2Model ----
(***************************************************************************)
(* A model of FTP.py: the process-wide FTP session (g_ftp, g_curdirpath,   *)
(* g_credentials), the remote server it talks to, and the operations of    *)
(* class FTP, each one executed as a whole (with every nested call) against *)
(* a schedule of transport faults.                                          *)
(*                                                                          *)
(* Strings are sequences of tokens.  A token is the separator "/", the      *)
(* parent marker "..", a blank " ", or a whole name ("a", "b", "f").        *)
(* A server path is a sequence of names; <<>> is the root.                  *)
(***************************************************************************)
EXTENDS Integers, Sequences, FiniteSets, TLC

VARIABLES g_ftp, g_curdirpath, g_credentials, srvDirs, srvFiles, srvCwd,
          trace, last, prev, now, procs

vars == <<g_ftp, g_curdirpath, g_credentials, srvDirs, srvFiles, srvCwd,
          trace, last, prev, now, procs>>

\* ------------------------------------------------------------------ bounds
\* Most faults (transport failures, refusals) injected into one operation.
MaxFaults == 2
\* Most verbs of an operation that pass before its first fault.
MaxSkip == 9
\* Most verbs that pass between one fault and the next.
MaxGap == 2
\* Most directories the server may hold, the root not counted.
MaxDirs == 2
\* Longest cached path, in tokens (separators and names).
MaxPath == 5
\* Clock ticks in one unit of a written time stamp.
Resolution == 2

\* ----------------------------------------------------------------- strings
SLASH == "/"
ROOT == <<"/">>

Last(s) == s[Len(s)]
Front(s) == SubSeq(s, 1, Len(s) - 1)
DropFirst(s, n) == SubSeq(s, n + 1, Len(s))
HasSlash(s) == \E i \in 1..Len(s) : s[i] = SLASH

\* str.replace("//", "/"): non-overlapping, left to right.
RECURSIVE ReplaceDoubleSlash(_)
ReplaceDoubleSlash(s) ==
  IF Len(s) < 2 THEN s
  ELSE IF s[1] = SLASH /\ s[2] = SLASH
       THEN <<SLASH>> \o ReplaceDoubleSlash(DropFirst(s, 2))
       ELSE <<s[1]>> \o ReplaceDoubleSlash(Tail(s))

\* str.strip(): blanks removed at both ends.
RECURSIVE Strip(_)
Strip(s) ==
  IF s = <<>> THEN s
  ELSE IF s[1] = " " THEN Strip(Tail(s))
  ELSE IF Last(s) = " " THEN Strip(Front(s))
  ELSE s

\* str.split("/"): the list of pieces between separators ("" splits to [""]).
RECURSIVE Split(_)
Split(s) ==
  IF ~HasSlash(s) THEN <<s>>
  ELSE LET i == CHOOSE k \in 1..Len(s) :
                   s[k] = SLASH /\ \A j \in 1..(k - 1) : s[j] # SLASH
       IN <<SubSeq(s, 1, i - 1)>> \o Split(DropFirst(s, i))

\* "/".join(list)
RECURSIVE Join(_)
Join(l) ==
  IF l = <<>> THEN <<>>
  ELSE IF Len(l) = 1 THEN l[1]
  ELSE l[1] \o <<SLASH>> \o Join(Tail(l))

\* str.rstrip("/")
RECURSIVE RStripSlash(_)
RStripSlash(s) ==
  IF s # <<>> /\ Last(s) = SLASH THEN RStripSlash(Front(s)) ELSE s

\* os.path.split (posixpath): head is everything up to the last separator,
\* with trailing separators removed unless it consists of separators only.
OsPathSplit(p) ==
  LET i == IF HasSlash(p)
           THEN CHOOSE k \in 1..Len(p) :
                  p[k] = SLASH /\ \A j \in (k + 1)..Len(p) : p[j] # SLASH
           ELSE 0
      head0 == SubSeq(p, 1, i)
      tail == DropFirst(p, i)
      head == IF head0 # <<>> /\ \E j \in 1..Len(head0) : head0[j] # SLASH
              THEN RStripSlash(head0) ELSE head0
  IN <<head, tail>>

\* FTP.ComparePaths: equality ignoring a trailing "/".
ComparePaths(p1, p2) ==
  LET q1 == ReplaceDoubleSlash(p1)
      q2 == ReplaceDoubleSlash(p2)
      r1 == IF Len(q1) = 0 \/ Last(q1) # SLASH THEN q1 \o <<SLASH>> ELSE q1
      r2 == IF Len(q2) = 0 \/ Last(q2) # SLASH THEN q2 \o <<SLASH>> ELSE q2
  IN r1 = r2

\* ------------------------------------------------------------------ server
\* The remote store: srvDirs is the set of directories (the root <<>> always
\* exists), srvFiles maps each file's path to its content, srvCwd is the
\* working directory of the session behind the live transport.

\* The text the server reports for a directory: "/" + names joined by "/".
PathString(p) == <<SLASH>> \o Join([i \in 1..Len(p) |-> <<p[i]>>])

RECURSIVE Walk(_, _)
Walk(at, segs) ==
  IF segs = <<>> THEN at
  ELSE LET s == Head(segs)
       IN IF s = <<>> THEN Walk(at, Tail(segs))
          ELSE IF s = <<"..">>
               THEN Walk(IF at = <<>> THEN at ELSE Front(at), Tail(segs))
               ELSE Walk(at \o s, Tail(segs))

\* The server path an argument names, seen from the working directory cwd.
Resolve(cwd, arg) ==
  IF arg # <<>> /\ arg[1] = SLASH THEN Walk(<<>>, Split(arg))
  ELSE Walk(cwd, Split(arg))

DirExists(dirs, p) == p = <<>> \/ p \in dirs
Children(m, p) ==
  {q[Len(q)] : q \in {d \in m.dirs \cup DOMAIN m.files :
                        Len(d) = Len(p) + 1 /\ SubSeq(d, 1, Len(p)) = p}}

\* Reply lines, as the prefix the code tests and the rest.
Reply250OK == [code |-> 250, text |-> "OK."]
Reply250 == [code |-> 250, text |-> "done"]
Reply257 == [code |-> 257, text |-> "created"]
Reply226Banner == [code |-> 226, text |-> "-File successfully transferred"]
Reply226Plain == [code |-> 226, text |-> " Transfer complete"]
Reply550 == [code |-> 550, text |-> "failed"]
NoReply == [code |-> 0, text |-> ""]

\* ------------------------------------------------------------- the machine
\* One operation runs on a record m of the whole state plus the fault
\* schedule not yet consumed (sched), the verbs sent so far (trace) and the
\* number of Reconnect calls it is inside (rd).
Mach(ftp, cur, cred, dirs, files, cwd, sched) ==
  [ftp |-> ftp, cur |-> cur, cred |-> cred, dirs |-> dirs, files |-> files,
   cwd |-> cwd, sched |-> sched, trace |-> <<>>, rd |-> 0]

Ret(m, v) == [m |-> m, ret |-> v, exc |-> "none"]
Raise(m, kind) == [m |-> m, ret |-> FALSE, exc |-> kind]

Event(m, verb, arg, out) ==
  [verb |-> verb, arg |-> arg, out |-> out, rd |-> m.rd,
   cwd |-> IF m.ftp = "up" THEN m.cwd ELSE <<"?">>]

\* A verb sent on the transport.  On a transport that is absent or broken
\* every verb raises.  On a live one the next entry of the fault schedule
\* decides: "fail" breaks the connection (the verb raises, and so does every
\* later verb until a new transport is opened), "nak" makes the server answer
\* with a non-success reply, "ok" (or an exhausted schedule) lets the server
\* act on the verb.  The code reads no reply code of a pwd or a listing, so
\* a refusal of one is no case of its own.  Two more kinds matter to the
\* transfer in CopyAndRenameFile: "perm" is a refusal the transport reports
\* by raising error_perm (to every other caller it is a refusal like
\* "nak"), and "plain" lets the server act on a transfer verb and answer
\* with a 226 reply whose text is not the banner (a refusal of any other
\* verb).
NoReplyCode == {"pwd", "nlst"}

\* The schedule is a sequence of faults, each with the number of verbs that
\* pass before it (skip) and its kind.  What it holds for the next verb (or
\* the next opening of a connection), and what is left of it after that.
NextFault(m) ==
  IF m.sched = <<>> \/ Head(m.sched).skip > 0 THEN "ok"
  ELSE Head(m.sched).kind
RestFaults(m) ==
  IF m.sched = <<>> THEN <<>>
  ELSE IF Head(m.sched).skip > 0
       THEN <<[Head(m.sched) EXCEPT !.skip = @ - 1]>> \o Tail(m.sched)
       ELSE Tail(m.sched)

Send(m, verb, arg) ==
  IF m.ftp # "up"
  THEN [m |-> [m EXCEPT !.trace = Append(@, Event(m, verb, arg, "fail"))],
        out |-> "fail"]
  ELSE LET o == IF NextFault(m) # "fail" /\ verb \in NoReplyCode
                THEN "ok" ELSE NextFault(m)
       IN [m |-> [m EXCEPT !.sched = RestFaults(m),
                           !.ftp = IF o = "fail" THEN "down" ELSE "up",
                           !.trace = Append(@, Event(m, verb, arg, o))],
           out |-> o]

Note(m, what) ==
  [m EXCEPT !.trace = Append(@, [verb |-> what, arg |-> <<>>, out |-> "call",
                                  rd |-> m.rd, cwd |-> <<"?">>])]

\* What the server does with a verb it received (out = "ok") or refuses
\* (out = "nak"): the reply, and the change to the store.
ServerCwd(m, out, arg) ==
  LET target == Resolve(m.cwd, arg)
  IN IF out = "ok" /\ DirExists(m.dirs, target)
     THEN [m |-> [m EXCEPT !.cwd = target], msg |-> Reply250OK]
     ELSE [m |-> m, msg |-> Reply550]

ServerMkd(m, out, arg) ==
  LET target == Resolve(m.cwd, arg)
  IN IF /\ out = "ok"
        /\ target # <<>>
        /\ DirExists(m.dirs, Front(target))
        /\ target \notin m.dirs
        /\ target \notin DOMAIN m.files
     THEN [m |-> [m EXCEPT !.dirs = @ \cup {target}], msg |-> Reply257]
     ELSE [m |-> m, msg |-> Reply550]

ServerNlst(m) == {<<n>> : n \in Children(m, m.cwd)}

\* DELE: the file the argument names is removed if there is one.
ServerDelete(m, out, arg) ==
  LET target == Resolve(m.cwd, arg)
  IN IF out = "ok" /\ target \in DOMAIN m.files
     THEN [m |-> [m EXCEPT !.files = [p \in DOMAIN @ \ {target} |-> @[p]]],
           msg |-> Reply250]
     ELSE [m |-> m, msg |-> Reply550]

\* RMD: the directory the argument names is removed if there is one and it
\* holds nothing.  The server does not look at whose working directory it
\* is.
ServerRmd(m, out, arg) ==
  LET target == Resolve(m.cwd, arg)
  IN IF out = "ok" /\ target \in m.dirs /\ Children(m, target) = {}
     THEN [m |-> [m EXCEPT !.dirs = @ \ {target}], msg |-> Reply250]
     ELSE [m |-> m, msg |-> Reply550]

\* STOR: the bytes sent become the content of the file the argument names,
\* in place of what it held, if its directory exists.  The reply is the
\* banner, or another 226 line (out = "plain").
ServerStor(m, out, arg, bytes) ==
  LET target == Resolve(m.cwd, arg)
  IN IF /\ out \in {"ok", "plain"}
        /\ target # <<>>
        /\ DirExists(m.dirs, Front(target))
        /\ target \notin m.dirs
     THEN [m |-> [m EXCEPT !.files = [p \in DOMAIN @ \cup {target} |->
                                       IF p = target THEN bytes ELSE @[p]]],
           msg |-> IF out = "ok" THEN Reply226Banner ELSE Reply226Plain]
     ELSE [m |-> m, msg |-> Reply550]

\* RETR: the bytes of the file the argument names, if there is one.
ServerRetr(m, out, arg) ==
  LET target == Resolve(m.cwd, arg)
  IN IF out \in {"ok", "plain"} /\ target \in DOMAIN m.files
     THEN [m |-> m, msg |-> IF out = "ok" THEN Reply226Banner
                            ELSE Reply226Plain,
           data |-> m.files[target]]
     ELSE [m |-> m, msg |-> Reply550, data |-> <<>>]

\* msg.startswith("250 OK.")
StartsWith250OK(msg) == msg.code = 250 /\ msg.text = "OK."
\* msg.startswith("250 ")
StartsWith250(msg) == msg.code = 250
\* msg.startswith("257 ")
StartsWith257(msg) == msg.code = 257
\* msg.startswith("226")
StartsWith226(msg) == msg.code = 226

\* What a method hands back where the code has str|None: None, or a string.
None == <<>>
Some(s) == <<s>>

\* open(tempfname, "r", encoding='utf8') followed by readlines() and join:
\* the bytes as text, with every line ending ("CR" "LF", or "CR" alone)
\* read as "LF".  (bytes(s, 'utf-8') and f.write keep the tokens as they
\* are: nothing is translated on the way to the server or back from it.)
RECURSIVE ReadText(_)
ReadText(bytes) ==
  IF bytes = <<>> THEN <<>>
  ELSE IF Head(bytes) # "CR" THEN <<Head(bytes)>> \o ReadText(Tail(bytes))
  ELSE IF Len(bytes) >= 2 /\ bytes[2] = "LF"
       THEN <<"LF">> \o ReadText(DropFirst(bytes, 2))
       ELSE <<"LF">> \o ReadText(Tail(bytes))

\* --------------------------------------------------------------- class FTP
\* Every method is a function from the machine m (and its arguments) to the
\* machine it leaves, its return value and the exception it raised if any.
\* A method is written as a chain of definitions, one per point where it
\* received something (a reply, the result of a call): <method>_<point>.
\* Every call of one method by another goes through Call(f, m, args), defined
\* after the methods: f names the method, args is the tuple of its arguments.
\* FTP._lastMessage, which no method reads, is left out.
RECURSIVE Call(_, _, _)

\* FTP.UpdateCurpath: the new value of g_curdirpath.
UpdateCurpath(cur, newdir0) ==
  LET newdir == ReplaceDoubleSlash(newdir0)
  IN IF newdir[1] = SLASH THEN newdir
     ELSE IF newdir = <<"..">>
          THEN IF cur # ROOT THEN OsPathSplit(cur)[1] ELSE cur
          ELSE IF cur = ROOT THEN cur \o newdir
               ELSE cur \o <<SLASH>> \o newdir

\* FTP.Reconnect, line 89-91: the old path has been replayed.
Reconnect_replayed(r) == IF r.exc # "none" THEN r ELSE Ret(r.m, TRUE)

\* FTP.Reconnect, lines 81-89: the reply to cwd("/") is read.
Reconnect_replied(c) ==
  IF ~StartsWith250OK(c.msg) THEN Ret(c.m, FALSE)
  ELSE Reconnect_replayed(Call("SetDirectory", [c.m EXCEPT !.cur = ROOT],
                               <<c.m.cur, FALSE>>))

\* FTP.Reconnect, line 79: cwd("/") on the new transport, outside any try.
Reconnect_sent(s) ==
  IF s.out = "fail" THEN Raise(s.m, "error")
  ELSE Reconnect_replied(ServerCwd(s.m, s.out, ROOT))

\* FTP.Reconnect, lines 74-79.  ftplib.FTP_TLS(...) either raises, before
\* g_ftp is assigned, or gives a live transport whose session starts at the
\* root.
Reconnect_open(m) ==
  IF NextFault(m) = "fail"
  THEN Raise([Note(m, "connect") EXCEPT !.sched = RestFaults(m)], "error")
  ELSE Reconnect_sent(Send([Note(m, "connect") EXCEPT
                              !.sched = RestFaults(m),
                              !.ftp = "up", !.cwd = <<>>],
                           "cwd", ROOT))

\* Reconnect without the test of the credentials: the variant C6 excludes.
ReconnectBody_unchecked(m) == Reconnect_open(m)

\* FTP.Reconnect, lines 72-74.
ReconnectBody(m) ==
  IF m.cred = "empty" THEN Ret(m, FALSE) ELSE Reconnect_open(m)

Reconnect_left(r, rd) == [r EXCEPT !.m.rd = rd]

\* FTP.Reconnect
Reconnect(m) ==
  Reconnect_left(ReconnectBody([Note(m, "Reconnect") EXCEPT !.rd = @ + 1]), m.rd)

\* FTP.PWD, lines 279-286: the reported directory is compared with the cache.
PWDCheck(m, dir) ==
  IF ~ComparePaths(m.cur, dir) THEN Raise(m, "assert") ELSE Ret(m, dir)

\* FTP.PWD, line 275: the second pwd, outside any try.
PWD_resent(s2) ==
  IF s2.out = "fail" THEN Raise(s2.m, "error")
  ELSE PWDCheck(s2.m, PathString(s2.m.cwd))

\* FTP.PWD, lines 273-275.
PWD_reconnected(r) ==
  IF r.exc # "none" THEN r
  ELSE IF ~r.ret THEN Ret(r.m, <<>>)
  ELSE PWD_resent(Send(r.m, "pwd", <<>>))

\* FTP.PWD, lines 269-276.
PWD_sent(s) ==
  IF s.out # "fail" THEN PWDCheck(s.m, PathString(s.m.cwd))
  ELSE PWD_reconnected(Call("Reconnect", s.m, <<>>))

\* FTP.PWD
PWD(m) == PWD_sent(Send(m, "pwd", <<>>))

\* FTP.CWD, line 145-146.
CWD_checked(p, ret) == IF p.exc # "none" THEN p ELSE Ret(p.m, ret)

\* FTP.CWD, lines 141-146: the reply is read, the cache updated, PWD queried.
CWDFinish(c, newdir) ==
  CWD_checked(Call("PWD",
                   IF StartsWith250OK(c.msg)
                   THEN [c.m EXCEPT !.cur = UpdateCurpath(@, newdir)]
                   ELSE c.m,
                   <<>>),
              StartsWith250OK(c.msg))

\* FTP.CWD, lines 135-139: the second cwd, inside its own try.
CWD_resent(s2, newdir) ==
  IF s2.out = "fail" THEN Ret(s2.m, FALSE)
  ELSE CWDFinish(ServerCwd(s2.m, s2.out, newdir), newdir)

\* FTP.CWD, lines 133-136.
CWD_reconnected(r, newdir) ==
  IF r.exc # "none" THEN r
  ELSE IF ~r.ret THEN Ret(r.m, FALSE)
  ELSE CWD_resent(Send(r.m, "cwd", newdir), newdir)

\* FTP.CWD, lines 129-133.
CWD_sent(s, newdir) ==
  IF s.out # "fail" THEN CWDFinish(ServerCwd(s.m, s.out, newdir), newdir)
  ELSE CWD_reconnected(Call("Reconnect", s.m, <<>>), newdir)

\* A CWD that sends cwd whatever PWD reported (without lines 124-126): the
\* variant C20 excludes.
CWD_queried_always(p, newdir) ==
  IF p.exc # "none" THEN p
  ELSE CWD_sent(Send(p.m, "cwd", newdir), newdir)

\* FTP.CWD, lines 123-130.
CWD_queried(p, newdir) ==
  IF p.exc # "none" THEN p
  ELSE IF p.ret = newdir \/ p.ret \o <<SLASH>> = newdir THEN Ret(p.m, TRUE)
  ELSE CWD_sent(Send(p.m, "cwd", newdir), newdir)

\* FTP.CWD
CWD(m, newdir) ==
  CWD_queried(Call("PWD", m, <<>>), ReplaceDoubleSlash(newdir))

\* FTP.MKD, lines 160-161.  Of the three tests of line 161 the first,
\* msg == newdir, is for a transport that hands back the name it made; the
\* server of this model answers with a reply line.
MKDFinish(c, newdir) ==
  Ret(c.m, StartsWith250(c.msg) \/ StartsWith257(c.msg))

\* FTP.MKD, line 159: the second mkd, outside any try.
MKD_resent(s2, newdir) ==
  IF s2.out = "fail" THEN Raise(s2.m, "error")
  ELSE MKDFinish(ServerMkd(s2.m, s2.out, newdir), newdir)

\* FTP.MKD, lines 157-159.
MKD_reconnected(r, newdir) ==
  IF r.exc # "none" THEN r
  ELSE IF ~r.ret THEN Ret(r.m, FALSE)
  ELSE MKD_resent(Send(r.m, "mkd", newdir), newdir)

\* FTP.MKD, lines 153-157.
MKD_sent(s, newdir) ==
  IF s.out # "fail" THEN MKDFinish(ServerMkd(s.m, s.out, newdir), newdir)
  ELSE MKD_reconnected(Call("Reconnect", s.m, <<>>), newdir)

\* FTP.MKD
MKD(m, newdir) == MKD_sent(Send(m, "mkd", newdir), newdir)

\* FTP.FileExists, lines 355-357: after the reconnect the method calls itself.
FileExists_reconnected(r, filedir) ==
  IF r.exc # "none" THEN r
  ELSE IF ~r.ret THEN Ret(r.m, FALSE)
  ELSE Call("FileExists", r.m, <<filedir>>)

\* FTP.FileExists, lines 347-355: the listing is read, or has failed.
FileExists_listed(s, filedir) ==
  IF s.out # "fail" THEN Ret(s.m, filedir \in ServerNlst(s.m))
  ELSE FileExists_reconnected(Call("Reconnect", s.m, <<>>), filedir)

\* FTP.FileExists, line 345-348: the result of CWD(path) is not read.
FileExists_moved(c, filedir) ==
  IF c.exc # "none" THEN c
  ELSE FileExists_listed(Send(c.m, "nlst", <<>>), filedir)

\* FTP.FileExists, lines 342-345.
FileExists_path(pe, path, filedir) ==
  IF pe.exc # "none" THEN pe
  ELSE IF ~pe.ret THEN Ret(pe.m, FALSE)
  ELSE FileExists_moved(Call("CWD", pe.m, <<path>>), filedir)

\* FTP.FileExists, lines 335-348: path and filedir are the two parts.
FileExists_split(m, path, filedir) ==
  IF Len(path) = 0 THEN FileExists_listed(Send(m, "nlst", <<>>), filedir)
  ELSE FileExists_path(Call("PathExists", m, <<path>>), path, filedir)

\* FTP.FileExists, lines 331-332: a trailing "/" is dropped.
FileExists_trimmed(m, filedir) ==
  IF HasSlash(filedir)
  THEN FileExists_split(m, Join(Front(Split(filedir))), Last(Split(filedir)))
  ELSE FileExists_split(m, <<>>, filedir)

\* FTP.FileExists
FileExists(m, filedir) ==
  IF filedir = ROOT THEN Ret(m, TRUE)
  ELSE FileExists_trimmed(m, IF Last(filedir) = SLASH THEN Front(filedir)
                             ELSE filedir)

\* FTP.PathExists, lines 302-306: an absolute path, after CWD("/").
PathExists_atRoot(c, dirPath) ==
  IF c.exc # "none" THEN c
  ELSE IF ~c.ret THEN Ret(c.m, FALSE)
  ELSE IF Tail(dirPath) = <<>> THEN Ret(c.m, TRUE)
  ELSE Call("FileExists", c.m, <<Tail(dirPath)>>)

\* FTP.PathExists, lines 316-319: a relative path, after CWD(rest).
PathExists_moved(c, end) ==
  IF c.exc # "none" THEN c
  ELSE IF end = <<>> THEN Ret(c.m, TRUE)
  ELSE Call("FileExists", c.m, <<end>>)

\* FTP.PathExists, lines 309-316.
PathExists_relative(m, path) ==
  IF Len(Join(Front(path))) > 0
  THEN PathExists_moved(Call("CWD", m, <<Join(Front(path))>>), Last(path))
  ELSE PathExists_moved(Ret(m, TRUE), Last(path))

\* FTP.PathExists, lines 297-309.
PathExists_stripped(m, dirPath) ==
  IF Len(dirPath) = 0 THEN Ret(m, FALSE)
  ELSE IF dirPath[1] = SLASH
       THEN PathExists_atRoot(Call("CWD", m, <<ROOT>>), dirPath)
       ELSE PathExists_relative(m, Split(dirPath))

\* FTP.PathExists
PathExists(m, dirPath) ==
  PathExists_stripped(m, Strip(ReplaceDoubleSlash(dirPath)))

\* FTP.SetDirectory, lines 397-401: after CWD(component), the next component.
SetDirectory_entered(c, rest, Create) ==
  IF c.exc # "none" THEN c
  ELSE IF ~c.ret THEN Ret(c.m, FALSE)
  ELSE Call("SetDirectoryWalk", c.m, <<rest, Create>>)

\* SetDirectory going on to the next component without entering the one it
\* has made: the variant C8 excludes.
SetDirectory_made_stay(mk, components, Create) ==
  IF mk.exc # "none" THEN mk
  ELSE IF ~mk.ret THEN Ret(mk.m, FALSE)
  ELSE Call("SetDirectoryWalk", mk.m, <<Tail(components), Create>>)

\* SetDirectory going on after an MKD that failed (without lines 392-394):
\* the variant C19 excludes.
SetDirectory_made_anyway(mk, components, Create) ==
  IF mk.exc # "none" THEN mk
  ELSE SetDirectory_entered(Call("CWD", mk.m, <<Head(components)>>),
                            Tail(components), Create)

\* FTP.SetDirectory, lines 392-397: after MKD(component).
SetDirectory_made(mk, components, Create) ==
  IF mk.exc # "none" THEN mk
  ELSE IF ~mk.ret THEN Ret(mk.m, FALSE)
  ELSE SetDirectory_entered(Call("CWD", mk.m, <<Head(components)>>),
                            Tail(components), Create)

\* SetDirectory making every component it is allowed to make, found or not:
\* the variant C9 excludes.
SetDirectory_looked_remake(fe, components, Create) ==
  IF fe.exc # "none" THEN fe
  ELSE IF ~Create
       THEN SetDirectory_entered(Call("CWD", fe.m, <<Head(components)>>),
                                 Tail(components), Create)
       ELSE SetDirectory_made(Call("MKD", fe.m, <<Head(components)>>),
                              components, Create)

\* FTP.SetDirectory, lines 387-397: after FileExists(component).
SetDirectory_looked(fe, components, Create) ==
  IF fe.exc # "none" THEN fe
  ELSE IF fe.ret
       THEN SetDirectory_entered(Call("CWD", fe.m, <<Head(components)>>),
                                 Tail(components), Create)
       ELSE IF ~Create THEN Ret(fe.m, FALSE)
       ELSE SetDirectory_made(Call("MKD", fe.m, <<Head(components)>>),
                              components, Create)

\* FTP.SetDirectory, lines 385-401: the walk over the components.
SetDirectoryWalk(m, components, Create) ==
  IF components = <<>> THEN Ret(m, TRUE)
  ELSE SetDirectory_looked(Call("FileExists", m, <<Head(components)>>),
                           components, Create)

\* FTP.SetDirectory, lines 377-382: the component list.
Components(newdir) ==
  LET abs == newdir[1] = SLASH
      all == (IF abs THEN <<ROOT>> ELSE <<>>)
             \o Split(IF abs THEN Tail(newdir) ELSE newdir)
      kept == SelectSeq(all, LAMBDA c : Len(c) > 0)
  IN [i \in 1..Len(kept) |-> Strip(kept[i])]

\* FTP.SetDirectory
SetDirectory(m, newdir, Create) ==
  IF Len(newdir) = 0 THEN Ret(m, TRUE)
  ELSE IF newdir[1] = SLASH /\ newdir = m.cur THEN Ret(m, TRUE)
  ELSE SetDirectoryWalk(m, Components(newdir), Create)

\* FTP.DeleteFile, lines 184-185.
DeleteFileFinish(c) == Ret(c.m, StartsWith250(c.msg))

\* FTP.DeleteFile, line 183: the second delete, outside any try.
DeleteFile_resent(s2, fname) ==
  IF s2.out = "fail" THEN Raise(s2.m, "error")
  ELSE DeleteFileFinish(ServerDelete(s2.m, s2.out, fname))

\* FTP.DeleteFile, lines 181-183.
DeleteFile_reconnected(r, fname) ==
  IF r.exc # "none" THEN r
  ELSE IF ~r.ret THEN Ret(r.m, FALSE)
  ELSE DeleteFile_resent(Send(r.m, "delete", fname), fname)

\* FTP.DeleteFile, lines 177-181.
DeleteFile_sent(s, fname) ==
  IF s.out # "fail" THEN DeleteFileFinish(ServerDelete(s.m, s.out, fname))
  ELSE DeleteFile_reconnected(Call("Reconnect", s.m, <<>>), fname)

\* FTP.DeleteFile, lines 173-178: the result of FileExists(fname).
DeleteFile_looked(e, fname) ==
  IF e.exc # "none" THEN e
  ELSE IF ~e.ret THEN Ret(e.m, TRUE)
  ELSE DeleteFile_sent(Send(e.m, "delete", fname), fname)

\* FTP.DeleteFile
DeleteFile(m, fname) ==
  IF Len(Strip(fname)) = 0 THEN Raise(m, "assert")
  ELSE DeleteFile_looked(Call("FileExists", m, <<fname>>), fname)

\* FTP.PutString, lines 425-426: the second storbinary, outside any try.
\* The reply is logged and not read: the method returns True.
PutString_resent(s2, fname, s) ==
  IF s2.out = "fail" THEN Raise(s2.m, "error")
  ELSE Ret(ServerStor(s2.m, s2.out, fname, s).m, TRUE)

\* FTP.PutString, lines 423-425.
PutString_reconnected(r, fname, s) ==
  IF r.exc # "none" THEN r
  ELSE IF ~r.ret THEN Ret(r.m, FALSE)
  ELSE PutString_resent(Send(r.m, "stor", fname), fname, s)

\* FTP.PutString, lines 419-426.
PutString_sent(s1, fname, s) ==
  IF s1.out # "fail" THEN Ret(ServerStor(s1.m, s1.out, fname, s).m, TRUE)
  ELSE PutString_reconnected(Call("Reconnect", s1.m, <<>>), fname, s)

\* FTP.PutString
PutString(m, fname, s) ==
  IF m.ftp = "none" THEN Ret(m, FALSE)
  ELSE PutString_sent(Send(m, "stor", fname), fname, s)

\* FTP.GetAsString, lines 607-617.
GetAsStringFinish(c) ==
  IF ~StartsWith226(c.msg) THEN Ret(c.m, None)
  ELSE Ret(c.m, Some(ReadText(c.data)))

\* FTP.GetAsString, line 606: the second retrbinary, outside any try.
GetAsString_resent(s2, fname) ==
  IF s2.out = "fail" THEN Raise(s2.m, "error")
  ELSE GetAsStringFinish(ServerRetr(s2.m, s2.out, fname))

\* FTP.GetAsString, lines 603-606.
GetAsString_reconnected(r, fname) ==
  IF r.exc # "none" THEN r
  ELSE IF ~r.ret THEN Ret(r.m, None)
  ELSE GetAsString_resent(Send(r.m, "retr", fname), fname)

\* FTP.GetAsString, lines 599-603.
GetAsString_sent(s, fname) ==
  IF s.out # "fail" THEN GetAsStringFinish(ServerRetr(s.m, s.out, fname))
  ELSE GetAsString_reconnected(Call("Reconnect", s.m, <<>>), fname)

\* FTP.GetAsString, lines 592-600: the result of FileExists(fname).
GetAsString_looked(e, fname) ==
  IF e.exc # "none" THEN e
  ELSE IF ~e.ret THEN Ret(e.m, None)
  ELSE GetAsString_sent(Send(e.m, "retr", fname), fname)

\* FTP.GetAsString
GetAsString(m, fname) ==
  IF m.ftp = "none" THEN Ret(m, None)
  ELSE GetAsString_looked(Call("FileExists", m, <<fname>>), fname)

\* The names of a listing in the order the server sends them: here the
\* order CHOOSE gives.
RECURSIVE Listed(_)
Listed(names) ==
  IF names = {} THEN <<>>
  ELSE LET n == CHOOSE x \in names : TRUE
       IN <<n>> \o Listed(names \ {n})

\* FTP.Nlst, line 647: the listing, outside any try.  The server of this
\* model lists no "." and no "..".
Nlst_sent(s) ==
  IF s.out = "fail" THEN Raise(s.m, "error")
  ELSE Ret(s.m, Listed(ServerNlst(s.m)))

\* FTP.Nlst, lines 643-647.
Nlst_moved(sd) ==
  IF sd.exc # "none" THEN sd
  ELSE IF ~sd.ret THEN Ret(sd.m, <<>>)
  ELSE Nlst_sent(Send(sd.m, "nlst", <<>>))

\* FTP.Nlst
Nlst(m, directory) ==
  IF m.ftp = "none" THEN Ret(m, <<>>)
  ELSE Nlst_moved(Call("SetDirectory", m, <<directory, FALSE>>))

\* FTP.DeleteDir, lines 249-250.
DeleteDirFinish(c) == Ret(c.m, StartsWith250(c.msg))

\* FTP.DeleteDir, line 246: the second rmd, outside any try.
DeleteDir_resent(s2, dirname) ==
  IF s2.out = "fail" THEN Raise(s2.m, "error")
  ELSE DeleteDirFinish(ServerRmd(s2.m, s2.out, dirname))

\* FTP.DeleteDir, lines 244-246.
DeleteDir_reconnected(r, dirname) ==
  IF r.exc # "none" THEN r
  ELSE IF ~r.ret THEN Ret(r.m, FALSE)
  ELSE DeleteDir_resent(Send(r.m, "rmd", dirname), dirname)

\* FTP.DeleteDir, lines 239-244.
DeleteDir_sent(s, dirname) ==
  IF s.out # "fail" THEN DeleteDirFinish(ServerRmd(s.m, s.out, dirname))
  ELSE DeleteDir_reconnected(Call("Reconnect", s.m, <<>>), dirname)

\* FTP.DeleteDir, lines 236-240: DeleteFile(file) for every name listed,
\* its result not read, then the rmd.
DeleteDir_emptying(m, files, dirname) ==
  IF files = <<>> THEN DeleteDir_sent(Send(m, "rmd", dirname), dirname)
  ELSE LET d == Call("DeleteFile", m, <<Head(files)>>)
       IN IF d.exc # "none" THEN d
          ELSE Call("DeleteDir_emptying", d.m, <<Tail(files), dirname>>)

\* FTP.DeleteDir, line 235: the result of Nlst(dirname).
DeleteDir_listed(n, dirname) ==
  IF n.exc # "none" THEN n
  ELSE DeleteDir_emptying(n.m, n.ret, dirname)

\* FTP.DeleteDir, lines 230-235: the result of FileExists(dirname).
DeleteDir_looked(e, dirname) ==
  IF e.exc # "none" THEN e
  ELSE IF ~e.ret THEN Ret(e.m, TRUE)
  ELSE DeleteDir_listed(Call("Nlst", e.m, <<dirname>>), dirname)

\* FTP.DeleteDir
DeleteDir(m, dirname) ==
  IF Len(Strip(dirname)) = 0 THEN Raise(m, "assert")
  ELSE IF dirname = ROOT THEN Raise(m, "assert")
  ELSE DeleteDir_looked(Call("FileExists", m, <<dirname>>), dirname)

\* FTP.IsSuccess: the first line of the reply is the banner, letter for
\* letter.
IsSuccess(ret) == ret = Reply226Banner

\* oldfilename.replace(' ', '%20')
Escape(name) == [i \in DOMAIN name |-> IF name[i] = " " THEN "%20" ELSE name[i]]
\* The name the copy is stored under, lines 523-524.
NewName(a) == IF a.newfilename = None THEN a.oldfilename ELSE a.newfilename[1]

\* FTP.CopyAndRenameFile, lines 533-535: the second storbinary, outside any
\* try; its reply is logged and not read.
Copy_storeResent(s2, a, temp) ==
  IF s2.out = "fail" THEN Raise(s2.m, "error")
  ELSE Ret(ServerStor(s2.m, s2.out, NewName(a), temp).m, TRUE)

\* FTP.CopyAndRenameFile, lines 531-533.
Copy_storeReconnected(r, a, temp) ==
  IF r.exc # "none" THEN r
  ELSE IF ~r.ret THEN Ret(r.m, FALSE)
  ELSE Copy_storeResent(Send(r.m, "stor", NewName(a)), a, temp)

\* FTP.CopyAndRenameFile, lines 526-535: the reply of storbinary is logged
\* and not read.
Copy_stored(s, a, temp) ==
  IF s.out # "fail" THEN Ret(ServerStor(s.m, s.out, NewName(a), temp).m, TRUE)
  ELSE Copy_storeReconnected(Call("Reconnect", s.m, <<>>), a, temp)

\* FTP.CopyAndRenameFile, lines 521-527: the result of CWD(newpathname) is
\* not read.
Copy_entered(c, a, temp) ==
  IF c.exc # "none" THEN c
  ELSE Copy_stored(Send(c.m, "stor", NewName(a)), a, temp)

\* FTP.CopyAndRenameFile, lines 520-521: the result of MKD(newpathname) is
\* not read.
Copy_made(k, a, temp) ==
  IF k.exc # "none" THEN k
  ELSE Copy_entered(Call("CWD", k.m, <<a.newpathname>>), a, temp)

\* FTP.CopyAndRenameFile, lines 516-521: the result of
\* PathExists(newpathname).
Copy_pathLooked(pe, a, temp) ==
  IF pe.exc # "none" THEN pe
  ELSE IF pe.ret THEN Copy_made(pe, a, temp)
  ELSE IF ~a.Create THEN Ret(pe.m, FALSE)
  ELSE Copy_made(Call("MKD", pe.m, <<a.newpathname>>), a, temp)

\* FTP.CopyAndRenameFile, lines 509-516: the reply of the download is read.
Copy_downloaded(g, a) ==
  IF ~IsSuccess(g.msg) THEN Ret(g.m, FALSE)
  ELSE Copy_pathLooked(Call("PathExists", g.m, <<a.newpathname>>), a, g.data)

\* FTP.CopyAndRenameFile, lines 506-507: the second retrbinary, outside any
\* try, with the name as given.
Copy_resent(s2, a) ==
  IF s2.out \in {"fail", "perm"} THEN Raise(s2.m, "error")
  ELSE Copy_downloaded(ServerRetr(s2.m, s2.out, a.oldfilename), a)

\* FTP.CopyAndRenameFile, lines 502-506.
Copy_reconnected(r, a) ==
  IF r.exc # "none" THEN r
  ELSE IF ~r.ret THEN Ret(r.m, a.IgnoreMissingFile)
  ELSE Copy_resent(Send(r.m, "retr", a.oldfilename), a)

\* FTP.CopyAndRenameFile, lines 496-507: the except clause takes error_perm
\* only; a transport failure leaves the method as an exception.
Copy_sent(s, a) ==
  IF s.out = "fail" THEN Raise(s.m, "error")
  ELSE IF s.out = "perm"
  THEN Copy_reconnected(Call("Reconnect", s.m, <<>>), a)
  ELSE Copy_downloaded(ServerRetr(s.m, s.out, Escape(a.oldfilename)), a)

\* FTP.CopyAndRenameFile, lines 489-497: the result of CWD(oldpathname) is
\* not read.
Copy_moved(c, a) ==
  IF c.exc # "none" THEN c
  ELSE Copy_sent(Send(c.m, "retr", Escape(a.oldfilename)), a)

\* FTP.CopyAndRenameFile; a is the record of its arguments.
CopyAndRenameFile(m, a) ==
  IF m.ftp = "none" THEN Ret(m, FALSE)
  ELSE Copy_moved(Call("CWD", m, <<a.oldpathname>>), a)

\* -------------------------------------------------------------- class Lock
\* Every method of Lock makes its own FTP(): an object with no state of its
\* own, over the class attributes of FTP.  The clock is read in ticks, and a
\* stamp is written in whole units of Resolution ticks (the code writes
\* seconds and reads a clock with microseconds); the unit stands for an hour.
LockLife == 12

\* f"/{path}/Lock" (GetLock, MakeLock) and path+"/Lock" (ReleaseLock).
RootedLockName(path) == <<SLASH>> \o path \o <<SLASH, "Lock">>
PlainLockName(path) == path \o <<SLASH, "Lock">>

\* The moments the clock is read at, in ticks.
Times == {0, 1, LockLife * Resolution, LockLife * Resolution + 1}
\* datetime.now().strftime('%Y-%m-%d %H:%M:%S'): the whole units, as text.
strftime(t) == <<ToString(t \div Resolution)>>
\* datetime.strptime(text, '%Y-%m-%d %H:%M:%S'): raises on any other text.
Parses(text) == \E t \in Times : strftime(t) = text
strptime(text) ==
  Resolution * (CHOOSE u \in {t \div Resolution : t \in Times} :
                  <<ToString(u)>> = text)

\* lock.split("=", 1): the text before the first "=" and the text after it,
\* or the whole text alone when it holds no "=".
SplitOnce(s) ==
  IF \A i \in DOMAIN s : s[i] # "="
  THEN <<s>>
  ELSE LET i == CHOOSE j \in DOMAIN s :
                  s[j] = "=" /\ \A k \in 1..(j - 1) : s[k] # "="
       IN <<SubSeq(s, 1, i - 1), DropFirst(s, i)>>

\* Lock.GetLock, lines 683-687: the result of GetAsString.
GetLock_read(g) ==
  IF g.exc # "none" THEN g
  ELSE IF g.ret = None \/ g.ret = Some(<<>>) THEN Ret(g.m, <<<<>>, <<>>>>)
  ELSE LET lockbits == SplitOnce(g.ret[1]) \o << <<>> >>
       IN Ret(g.m, <<lockbits[1], lockbits[2]>>)

\* Lock.GetLock
GetLock(m, path) ==
  GetLock_read(Call("GetAsString", m, <<RootedLockName(path)>>))

\* Lock.MakeLock, lines 691-693: the result of PutString.
MakeLock_put(p) ==
  IF p.exc # "none" THEN p
  ELSE IF ~p.ret THEN Raise(p.m, "error")
  ELSE Ret(p.m, None)

\* A MakeLock that leaves the owner out of the record: what the naming of
\* the writer rests on.
MakeLock_unnamed(m, path, id, t) ==
  MakeLock_put(Call("PutString", m,
                    <<RootedLockName(path), <<"=">> \o strftime(t)>>))

\* Lock.MakeLock; t is what datetime.now() gives.
MakeLock(m, path, id, t) ==
  MakeLock_put(Call("PutString", m,
                    <<RootedLockName(path), id \o <<"=">> \o strftime(t)>>))

\* Lock.SetLock, lines 661-662, 666-667, 673-674: after MakeLock.
SetLock_made(k) == IF k.exc # "none" THEN k ELSE Ret(k.m, <<>>)

\* Lock.SetLock, line 677.
LockedBy(lockid, lockdate) ==
  <<"Locked by ">> \o lockid \o <<" on ">> \o lockdate

\* A SetLock for which a record is spent once it is 12 hours old (">=" for
\* the ">" of line 671): what the strictness of the limit rests on.
SetLock_foreign_atLimit(m, path, id, t, lockid, lockdate) ==
  IF ~Parses(lockdate) THEN Raise(m, "error")
  ELSE IF t - strptime(lockdate) >= LockLife * Resolution
       THEN SetLock_made(Call("MakeLock", m, <<path, id, t>>))
       ELSE Ret(m, LockedBy(lockid, strftime(strptime(lockdate))))

\* Lock.SetLock, lines 670-677: the record names another owner.
SetLock_foreign(m, path, id, t, lockid, lockdate) ==
  IF ~Parses(lockdate) THEN Raise(m, "error")
  ELSE IF t - strptime(lockdate) > LockLife * Resolution
       THEN SetLock_made(Call("MakeLock", m, <<path, id, t>>))
       ELSE Ret(m, LockedBy(lockid, strftime(strptime(lockdate))))

\* A SetLock that does not write over the caller's own record (without
\* lines 665-667): what the renewal of one's own lock rests on.
SetLock_got_noRenew(g, path, id, t) ==
  IF g.exc # "none" THEN g
  ELSE IF g.ret[1] = <<>>
       THEN SetLock_made(Call("MakeLock", g.m, <<path, id, t>>))
  ELSE SetLock_foreign(g.m, path, id, t, g.ret[1], g.ret[2])

\* Lock.SetLock, lines 658-670: the result of GetLock.
SetLock_got(g, path, id, t) ==
  IF g.exc # "none" THEN g
  ELSE IF g.ret[1] = <<>>
       THEN SetLock_made(Call("MakeLock", g.m, <<path, id, t>>))
  ELSE IF g.ret[1] = id \/ g.ret[1] = <<>>
       THEN SetLock_made(Call("MakeLock", g.m, <<path, id, t>>))
  ELSE SetLock_foreign(g.m, path, id, t, g.ret[1], g.ret[2])

\* Lock.SetLock; t is what datetime.now() gives.
SetLock(m, path, id, t) ==
  SetLock_got(Call("GetLock", m, <<path>>), path, id, t)

\* Lock.ReleaseLock, lines 709-712: the result of DeleteFile.
ReleaseLock_deleted(d) == IF d.exc # "none" THEN d ELSE Ret(d.m, d.ret)

\* Lock.ReleaseLock, lines 702-712: the result of GetAsString.  Unpacking
\* the split into two names raises when the text holds no "=".
ReleaseLock_read(g, path, id) ==
  IF g.exc # "none" THEN g
  ELSE IF g.ret = None THEN Ret(g.m, TRUE)
  ELSE IF Len(SplitOnce(g.ret[1])) # 2 THEN Raise(g.m, "error")
  ELSE IF SplitOnce(g.ret[1])[1] = id
       THEN ReleaseLock_deleted(Call("DeleteFile", g.m,
                                     <<PlainLockName(path)>>))
       ELSE Ret(g.m, FALSE)

\* Lock.ReleaseLock
ReleaseLock(m, path, id) ==
  ReleaseLock_read(Call("GetAsString", m, <<PlainLockName(path)>>), path, id)

\* The call of method f with the arguments args.
Call(f, m, args) ==
  CASE f = "Reconnect" -> Reconnect(m)
    [] f = "PWD" -> PWD(m)
    [] f = "CWD" -> CWD(m, args[1])
    [] f = "MKD" -> MKD(m, args[1])
    [] f = "FileExists" -> FileExists(m, args[1])
    [] f = "PathExists" -> PathExists(m, args[1])
    [] f = "SetDirectory" -> SetDirectory(m, args[1], args[2])
    [] f = "SetDirectoryWalk" -> SetDirectoryWalk(m, args[1], args[2])
    [] f = "DeleteFile" -> DeleteFile(m, args[1])
    [] f = "PutString" -> PutString(m, args[1], args[2])
    [] f = "GetAsString" -> GetAsString(m, args[1])
    [] f = "Nlst" -> Nlst(m, args[1])
    [] f = "DeleteDir_emptying" -> DeleteDir_emptying(m, args[1], args[2])
    [] f = "DeleteDir" -> DeleteDir(m, args[1])
    [] f = "CopyAndRenameFile" -> CopyAndRenameFile(m, args[1])
    [] f = "GetLock" -> GetLock(m, args[1])
    [] f = "MakeLock" -> MakeLock(m, args[1], args[2], args[3])
    [] f = "SetLock" -> SetLock(m, args[1], args[2], args[3])
    [] f = "ReleaseLock" -> ReleaseLock(m, args[1], args[2])

\* ------------------------------------------------------------ the program
\* The inputs the operations are called with.
P_root == <<"/">>
P_a == <<"/", "a">>
P_b == <<"/", "b">>
P_ab == <<"/", "a", "/", "b">>
P_aSlash == <<"/", "a", "/">>
R_b == <<"b">>
R_up == <<"..">>

CWDArgs == {P_root, P_a, P_ab, P_aSlash, R_b, R_up}
MKDArgs == {R_b}
FileExistsArgs == {P_root, P_b, P_ab, R_b}
PathExistsArgs == {P_root, P_ab, R_b}
SetDirectoryArgs == {P_root, P_a, P_ab, R_b}

FaultKinds == {"fail", "nak"}
Faults == [skip : 0..MaxSkip, kind : FaultKinds]
Schedules ==
  {s \in UNION {[1..n -> Faults] : n \in 0..MaxFaults} :
     \A i \in 2..Len(s) : s[i].skip <= MaxGap}

NoFiles == [p \in {} |-> <<>>]
Idle == [op |-> "idle", arg |-> <<>>, create |-> FALSE, data |-> <<>>,
         ret |-> FALSE, exc |-> "none",
         pre |-> [ftp |-> "none", cur |-> ROOT, cwd |-> <<>>, dirs |-> {},
                  files |-> NoFiles]]
\* What is kept of the call before the last one: the call, its result, and
\* whether it ran with no transport failure and no refusal by the server.
Before(l, tr) ==
  [op |-> l.op, arg |-> l.arg, data |-> l.data, ret |-> l.ret, exc |-> l.exc,
   quiet |-> \A i \in DOMAIN tr : tr[i].out \in {"ok", "call"}]

Now(sched) ==
  Mach(g_ftp, g_curdirpath, g_credentials, srvDirs, srvFiles, srvCwd, sched)

\* The caller is between two calls: the process has not been ended by a
\* failed assertion, and the result of the last call has been taken.
CanCall == last.op = "idle"

\* The state an operation leaves, with what the caller observes of it.
LeaveWith(r, op, arg, create, data, sched) ==
  /\ Cardinality(r.m.dirs) <= MaxDirs
  /\ Len(r.m.cur) <= MaxPath
  /\ g_ftp' = r.m.ftp
  /\ g_curdirpath' = r.m.cur
  /\ g_credentials' = r.m.cred
  /\ srvDirs' = r.m.dirs
  /\ srvFiles' = r.m.files
  /\ srvCwd' = r.m.cwd
  /\ trace' = r.m.trace
  /\ last' = [op |-> op, arg |-> arg, create |-> create, data |-> data,
              ret |-> r.ret, exc |-> r.exc,
              pre |-> [ftp |-> g_ftp, cur |-> g_curdirpath, cwd |-> srvCwd,
                       dirs |-> srvDirs, files |-> srvFiles]]
  /\ UNCHANGED <<prev, now, procs>>

Leave(r, op, arg, create, sched) == LeaveWith(r, op, arg, create, <<>>, sched)

Init ==
  /\ g_ftp = "none"
  /\ g_curdirpath = ROOT
  /\ g_credentials = "empty"
  /\ srvDirs = {}
  /\ srvFiles = NoFiles
  /\ srvCwd = <<>>
  /\ trace = <<>>
  /\ last = Idle
  /\ prev = Before(Idle, <<>>)
  /\ now = 0
  /\ procs = [p \in {} |-> Idle]

\* FTP.OpenConnection: the credentials are read from the file, which holds
\* host, ID and PW ("set") or an object with nothing in it ("empty"); then
\* Reconnect.
CredentialFiles == {"set", "empty"}
OpenConnection ==
  /\ CanCall
  /\ \E cred \in CredentialFiles, sched \in Schedules :
       Leave(Call("Reconnect", [Now(sched) EXCEPT !.cred = cred], <<>>),
             "OpenConnection", <<>>, FALSE, sched)

DoReconnect ==
  /\ CanCall
  /\ \E sched \in Schedules :
       Leave(Call("Reconnect", Now(sched), <<>>), "Reconnect", <<>>, FALSE, sched)

DoPWD ==
  /\ CanCall
  /\ \E sched \in Schedules : Leave(Call("PWD", Now(sched), <<>>), "PWD", <<>>, FALSE, sched)

DoCWD ==
  /\ CanCall
  /\ \E newdir \in CWDArgs, sched \in Schedules :
       Leave(Call("CWD", Now(sched), <<newdir>>), "CWD", newdir, FALSE, sched)

DoMKD ==
  /\ CanCall
  /\ \E newdir \in MKDArgs, sched \in Schedules :
       Leave(Call("MKD", Now(sched), <<newdir>>), "MKD", newdir, FALSE, sched)

DoFileExists ==
  /\ CanCall
  /\ \E filedir \in FileExistsArgs, sched \in Schedules :
       Leave(Call("FileExists", Now(sched), <<filedir>>),
             "FileExists", filedir, FALSE, sched)

DoPathExists ==
  /\ CanCall
  /\ \E dirPath \in PathExistsArgs, sched \in Schedules :
       Leave(Call("PathExists", Now(sched), <<dirPath>>),
             "PathExists", dirPath, FALSE, sched)

DoSetDirectory ==
  /\ CanCall
  /\ \E newdir \in SetDirectoryArgs, Create \in BOOLEAN, sched \in Schedules :
       Leave(Call("SetDirectory", Now(sched), <<newdir, Create>>),
             "SetDirectory", newdir, Create, sched)

\* The caller takes the result; a failed assertion has ended the process.
Return ==
  /\ last.op # "idle"
  /\ last.exc # "assert"
  /\ last' = Idle
  /\ trace' = <<>>
  /\ UNCHANGED <<g_ftp, g_curdirpath, g_credentials, srvDirs, srvFiles, srvCwd>>
  /\ UNCHANGED <<prev, now, procs>>

Next ==
  \/ OpenConnection
  \/ DoReconnect
  \/ DoPWD
  \/ DoCWD
  \/ DoMKD
  \/ DoFileExists
  \/ DoPathExists
  \/ DoSetDirectory
  \/ Return

Spec == Init /\ [][Next]_vars

\* ------------------------------------------- the program: file transfers
\* A second program over the same session: the caller opens the connection,
\* moves with SetDirectory, and stores, reads and deletes files.  It keeps
\* what the call before the last one was and returned (prev).
P_f == <<"/", "f">>
P_af == <<"/", "a", "/", "f">>
R_f == <<"f">>
R_af == <<"a", "/", "f">>
FileNames == {P_f, P_af, R_f, R_af}

S_one == <<"one">>
S_lines == <<"two", "CR", "LF">>
Texts == {S_one, S_lines}

\* Most faults injected into one operation of this program.
MaxFileFaults == 1
FileSchedules == {s \in Schedules : Len(s) <= MaxFileFaults}

\* OpenConnection with the credentials file in place, and SetDirectory
\* with Create=True, as the caller uses them before a transfer.
FileDirs == {P_root, P_a}
FileOpenConnection ==
  /\ CanCall
  /\ \E sched \in FileSchedules :
       Leave(Call("Reconnect", [Now(sched) EXCEPT !.cred = "set"], <<>>),
             "OpenConnection", <<>>, FALSE, sched)

FileSetDirectory ==
  /\ CanCall
  /\ \E newdir \in FileDirs, sched \in FileSchedules :
       Leave(Call("SetDirectory", Now(sched), <<newdir, TRUE>>),
             "SetDirectory", newdir, TRUE, sched)

DoDeleteFile ==
  /\ CanCall
  /\ \E fname \in FileNames, sched \in FileSchedules :
       LeaveWith(Call("DeleteFile", Now(sched), <<fname>>),
                 "DeleteFile", fname, FALSE, <<>>, sched)

DoPutString ==
  /\ CanCall
  /\ \E fname \in FileNames, s \in Texts, sched \in FileSchedules :
       LeaveWith(Call("PutString", Now(sched), <<fname, s>>),
                 "PutString", fname, FALSE, s, sched)

DoGetAsString ==
  /\ CanCall
  /\ \E fname \in FileNames, sched \in FileSchedules :
       LeaveWith(Call("GetAsString", Now(sched), <<fname>>),
                 "GetAsString", fname, FALSE, <<>>, sched)

\* The caller takes the result and remembers the call.
Taken ==
  /\ last.op # "idle"
  /\ last.exc # "assert"
  /\ last' = Idle
  /\ prev' = Before(last, trace)
  /\ trace' = <<>>
  /\ UNCHANGED <<g_ftp, g_curdirpath, g_credentials, srvDirs, srvFiles, srvCwd>>
  /\ UNCHANGED <<now, procs>>

FileNext ==
  \/ FileOpenConnection
  \/ FileSetDirectory
  \/ DoDeleteFile
  \/ DoPutString
  \/ DoGetAsString
  \/ Taken

FileSpec == Init /\ [][FileNext]_vars

\* ------------------------------------------------------------------
\* A program that fills a directory with files and deletes it.
\* ------------------------------------------------------------------
R_a == <<"a">>
R_g == <<"g">>
DirNames == {R_a, P_a}
DirFiles == {R_f, R_g}

DirOpenConnection ==
  /\ CanCall
  /\ Leave(Call("Reconnect", [Now(<<>>) EXCEPT !.cred = "set"], <<>>),
           "OpenConnection", <<>>, FALSE, <<>>)

DirSetDirectory ==
  /\ CanCall
  /\ \E newdir \in FileDirs :
       Leave(Call("SetDirectory", Now(<<>>), <<newdir, TRUE>>),
             "SetDirectory", newdir, TRUE, <<>>)

DirPutString ==
  /\ CanCall
  /\ \E fname \in DirFiles :
       LeaveWith(Call("PutString", Now(<<>>), <<fname, S_one>>),
                 "PutString", fname, FALSE, S_one, <<>>)

DoDeleteDir ==
  /\ CanCall
  /\ \E dirname \in DirNames, sched \in FileSchedules :
       Leave(Call("DeleteDir", Now(sched), <<dirname>>),
             "DeleteDir", dirname, FALSE, sched)

DirNext ==
  \/ DirOpenConnection
  \/ DirSetDirectory
  \/ DirPutString
  \/ DoDeleteDir
  \/ Return

DirSpec == Init /\ [][DirNext]_vars

\* ------------------------------------------------------------------
\* A program that copies a file from one directory to another.
\* ------------------------------------------------------------------
\* Most verbs of a copy that pass before its fault.
MaxCopySkip == 11
CopyFaultKinds == {"fail", "perm", "plain"}
CopySchedules ==
  {<<>>} \cup {<<f>> : f \in [skip : 0..MaxCopySkip, kind : CopyFaultKinds]}
CopyArgs ==
  [oldpathname : {P_a}, oldfilename : {R_f},
   newpathname : {P_b}, newfilename : {None, Some(R_g)},
   Create : BOOLEAN, IgnoreMissingFile : {FALSE}]

CopyOpenConnection ==
  /\ CanCall
  /\ Leave(Call("Reconnect", [Now(<<>>) EXCEPT !.cred = "set"], <<>>),
           "OpenConnection", <<>>, FALSE, <<>>)

CopySetDirectory ==
  /\ CanCall
  /\ \E newdir \in FileDirs :
       Leave(Call("SetDirectory", Now(<<>>), <<newdir, TRUE>>),
             "SetDirectory", newdir, TRUE, <<>>)

CopyPutString ==
  /\ CanCall
  /\ \E s \in Texts :
       LeaveWith(Call("PutString", Now(<<>>), <<R_f, s>>),
                 "PutString", R_f, FALSE, s, <<>>)

DoCopyAndRenameFile ==
  /\ CanCall
  /\ \E a \in CopyArgs, sched \in CopySchedules :
       Leave(Call("CopyAndRenameFile", Now(sched), <<a>>),
             "CopyAndRenameFile", a, a.Create, sched)

CopyNext ==
  \/ CopyOpenConnection
  \/ CopySetDirectory
  \/ CopyPutString
  \/ DoCopyAndRenameFile
  \/ Return

CopySpec == Init /\ [][CopyNext]_vars

\* ------------------------------------------------------------------
\* A program whose connection breaks at a verb of an operation and whose
\* server may fail or refuse a verb of the Reconnect that follows, up to
\* the cwd into the directory the Reconnect replays.
\* ------------------------------------------------------------------
\* Most verbs of an operation that pass before its connection breaks, and
\* most verbs between that and the second fault.
MaxResendSkip == 1
ReplayGap == 5
ResendSchedules ==
  {<<[skip |-> k, kind |-> "fail"]>> : k \in 0..MaxResendSkip}
    \cup {<<[skip |-> k, kind |-> "fail"], f>> :
            k \in 0..MaxResendSkip,
            f \in [skip : 0..ReplayGap, kind : FaultKinds]}
ResendNames == {R_f, P_af}

ResendOpenConnection ==
  /\ CanCall
  /\ Leave(Call("Reconnect", [Now(<<>>) EXCEPT !.cred = "set"], <<>>),
           "OpenConnection", <<>>, FALSE, <<>>)

ResendSetDirectory ==
  /\ CanCall
  /\ \E newdir \in FileDirs :
       Leave(Call("SetDirectory", Now(<<>>), <<newdir, TRUE>>),
             "SetDirectory", newdir, TRUE, <<>>)

ResendMKD ==
  /\ CanCall
  /\ \E sched \in ResendSchedules :
       Leave(Call("MKD", Now(sched), <<R_b>>), "MKD", R_b, FALSE, sched)

ResendFileExists ==
  /\ CanCall
  /\ \E sched \in ResendSchedules :
       Leave(Call("FileExists", Now(sched), <<R_f>>),
             "FileExists", R_f, FALSE, sched)

ResendDeleteFile ==
  /\ CanCall
  /\ \E fname \in ResendNames, sched \in ResendSchedules :
       LeaveWith(Call("DeleteFile", Now(sched), <<fname>>),
                 "DeleteFile", fname, FALSE, <<>>, sched)

ResendPutString ==
  /\ CanCall
  /\ \E fname \in ResendNames, sched \in ResendSchedules :
       LeaveWith(Call("PutString", Now(sched), <<fname, S_one>>),
                 "PutString", fname, FALSE, S_one, sched)

ResendGetAsString ==
  /\ CanCall
  /\ \E fname \in ResendNames, sched \in ResendSchedules :
       LeaveWith(Call("GetAsString", Now(sched), <<fname>>),
                 "GetAsString", fname, FALSE, <<>>, sched)

ResendNext ==
  \/ ResendOpenConnection
  \/ ResendSetDirectory
  \/ ResendMKD
  \/ ResendFileExists
  \/ ResendDeleteFile
  \/ ResendPutString
  \/ ResendGetAsString
  \/ Return

ResendSpec == Init /\ [][ResendNext]_vars

\* -------------------------------------------------- the program: locking
\* A third program: the caller opens the connection, makes the locked
\* directory, and sets, reads and releases locks on it under several ids
\* while the clock moves on.  A record with nothing in it is put in place by
\* PutString.
P_p == <<"/", "p">>
R_p == <<"p">>
LockDirs == {P_root, P_p}
LockPaths == {R_p, P_p}
LockIds == {<<"alice">>, <<"bob">>, <<>>}
\* Most verbs of an operation of this program that pass before its fault.
MaxLockSkip == 2
LockSchedules ==
  {s \in FileSchedules : \A i \in DOMAIN s : s[i].skip <= MaxLockSkip}

LockOpenConnection ==
  /\ CanCall
  /\ \E sched \in LockSchedules :
       Leave(Call("Reconnect", [Now(sched) EXCEPT !.cred = "set"], <<>>),
             "OpenConnection", <<>>, FALSE, sched)

LockSetDirectory ==
  /\ CanCall
  /\ \E newdir \in LockDirs, sched \in LockSchedules :
       Leave(Call("SetDirectory", Now(sched), <<newdir, TRUE>>),
             "SetDirectory", newdir, TRUE, sched)

LockPutString ==
  /\ CanCall
  /\ \E sched \in LockSchedules :
       LeaveWith(Call("PutString", Now(sched), <<RootedLockName(R_p), <<>>>>),
                 "PutString", RootedLockName(R_p), FALSE, <<>>, sched)

DoSetLock ==
  /\ CanCall
  /\ \E path \in LockPaths, id \in LockIds, sched \in LockSchedules :
       LeaveWith(Call("SetLock", Now(sched), <<path, id, now>>),
                 "SetLock", path, FALSE, id, sched)

DoGetLock ==
  /\ CanCall
  /\ \E path \in LockPaths, sched \in LockSchedules :
       LeaveWith(Call("GetLock", Now(sched), <<path>>),
                 "GetLock", path, FALSE, <<>>, sched)

DoReleaseLock ==
  /\ CanCall
  /\ \E path \in LockPaths, id \in LockIds, sched \in LockSchedules :
       LeaveWith(Call("ReleaseLock", Now(sched), <<path, id>>),
                 "ReleaseLock", path, FALSE, id, sched)

\* Time passes between two calls.
Tick ==
  /\ CanCall
  /\ \E t \in Times : t > now /\ now' = t
  /\ UNCHANGED <<g_ftp, g_curdirpath, g_credentials, srvDirs, srvFiles,
                 srvCwd, trace, last, prev, procs>>

\* SetLock over a connection that breaks twice during the call: the first
\* time at its verb number FirstBreak + 1, the second time soon after the
\* reconnection.
FirstBreak == 3
BrokenTwice ==
  {s \in Schedules : /\ Len(s) = 2
                     /\ s[1] = [skip |-> FirstBreak, kind |-> "fail"]
                     /\ s[2].kind = "fail"}
DoSetLockBroken ==
  /\ CanCall
  /\ \E path \in LockPaths, id \in LockIds \ {<<>>}, sched \in BrokenTwice :
       LeaveWith(Call("SetLock", Now(sched), <<path, id, now>>),
                 "SetLock", path, FALSE, id, sched)

LockNext ==
  \/ DoSetLockBroken
  \/ LockOpenConnection
  \/ LockSetDirectory
  \/ LockPutString
  \/ DoSetLock
  \/ DoGetLock
  \/ DoReleaseLock
  \/ Tick
  \/ Taken

LockSpec == Init /\ [][LockNext]_vars

\* ------------------------------------------- the program: two processes
\* Two processes, each with its own copy of the class attributes of FTP and
\* its own session on the server (procs[p]), share the store and lock the
\* same directory, each under its own id.  A SetLock runs in two steps, with
\* the steps of the other process between them: the GetLock of line 658,
\* then the rest, which decides on what GetLock returned.
Owners == {<<"alice">>, <<"bob">>}
Other(p) == CHOOSE q \in Owners : q # p

\* A process that has opened no connection and called nothing.
Fresh == [ftp |-> "none", cur |-> ROOT, cwd |-> <<>>, pc |-> "idle",
          path |-> <<>>, lockid |-> <<>>, lockdate |-> <<>>, ret |-> <<>>,
          exc |-> "none", wroteLast |-> FALSE]

\* The machine process p runs on: its session and the shared store.
Mine(p) ==
  Mach(procs[p].ftp, procs[p].cur, "set", srvDirs, srvFiles, procs[p].cwd, <<>>)
\* The step stored a file on the server.
Stored(r) ==
  \E i \in DOMAIN r.m.trace :
     r.m.trace[i].verb = "stor" /\ r.m.trace[i].out = "ok"
\* The session of p and the store after a step of p, and which process
\* was the last to store.
Kept(p, r, rec) ==
  /\ procs' = [q \in Owners |->
                 IF q = p
                 THEN [rec EXCEPT !.ftp = r.m.ftp, !.cur = r.m.cur,
                                  !.cwd = r.m.cwd, !.exc = r.exc,
                                  !.wroteLast = Stored(r) \/ @]
                 ELSE [procs[q] EXCEPT !.wroteLast = ~Stored(r) /\ @]]
  /\ srvDirs' = r.m.dirs
  /\ srvFiles' = r.m.files
  /\ UNCHANGED <<g_ftp, g_curdirpath, g_credentials, srvCwd, trace, last,
                 prev, now>>

RaceInit ==
  /\ g_ftp = "none"
  /\ g_curdirpath = ROOT
  /\ g_credentials = "empty"
  /\ srvDirs = {<<"p">>}
  /\ srvFiles = NoFiles
  /\ srvCwd = <<>>
  /\ trace = <<>>
  /\ last = Idle
  /\ prev = Before(Idle, <<>>)
  /\ now = 0
  /\ procs = [p \in Owners |-> Fresh]

\* FTP.OpenConnection in process p.
RaceOpenConnection(p) ==
  /\ procs[p].pc = "idle"
  /\ procs[p].ftp = "none"
  /\ Kept(p, Call("Reconnect", Mine(p), <<>>), procs[p])

\* Lock.SetLock in process p, line 658: GetLock has returned.
RaceGetLock(p) ==
  /\ procs[p].pc = "idle"
  /\ procs[p].ftp # "none"
  /\ \E path \in LockPaths :
       LET g == Call("GetLock", Mine(p), <<path>>)
       IN Kept(p, g, [procs[p] EXCEPT
                        !.pc = IF g.exc = "none" THEN "read" ELSE "done",
                        !.path = path,
                        !.lockid = IF g.exc = "none" THEN g.ret[1] ELSE <<>>,
                        !.lockdate = IF g.exc = "none" THEN g.ret[2] ELSE <<>>])

\* Lock.SetLock in process p, lines 659-677: the rest of the method.
RaceMakeLock(p) ==
  /\ procs[p].pc = "read"
  /\ LET k == SetLock_got(Ret(Mine(p), <<procs[p].lockid, procs[p].lockdate>>),
                          procs[p].path, p, now)
     IN Kept(p, k, [procs[p] EXCEPT
                      !.pc = "done",
                      !.ret = IF k.exc = "none" THEN k.ret ELSE <<>>])

\* Process p takes the result of its SetLock.
RaceReturn(p) ==
  /\ procs[p].pc = "done"
  /\ procs' = [procs EXCEPT ![p] = [@ EXCEPT !.pc = "idle", !.path = <<>>,
                                              !.lockid = <<>>,
                                              !.lockdate = <<>>,
                                              !.ret = <<>>, !.exc = "none"]]
  /\ UNCHANGED <<g_ftp, g_curdirpath, g_credentials, srvDirs, srvFiles,
                 srvCwd, trace, last, prev, now>>

RaceTick ==
  /\ \E t \in Times : t > now /\ now' = t
  /\ UNCHANGED <<g_ftp, g_curdirpath, g_credentials, srvDirs, srvFiles,
                 srvCwd, trace, last, prev, procs>>

RaceNext ==
  \/ \E p \in Owners : RaceOpenConnection(p)
  \/ \E p \in Owners : RaceGetLock(p)
  \/ \E p \in Owners : RaceMakeLock(p)
  \/ \E p \in Owners : RaceReturn(p)
  \/ RaceTick

RaceSpec == RaceInit /\ [][RaceNext]_vars

\* -------------------------------------------------------------- properties
\* What the caller and the server see of the operation that has just ended.
Consistent == ComparePaths(g_curdirpath, PathString(srvCwd))
Returned(op) == last.op = op /\ last.exc = "none"
ReconnectOps == {"Reconnect", "OpenConnection"}

\* The verbs the operation itself has sent (not those of a Reconnect it ran).
OwnSends(verb) ==
  {i \in DOMAIN trace : trace[i].verb = verb /\ trace[i].rd = 0}
\* The reply to the cwd("/") of the Reconnect that opened the transport at
\* position i of the trace.
RootCwdOut(i) ==
  IF i < Len(trace) /\ trace[i + 1].verb = "cwd" THEN trace[i + 1].out
  ELSE "none"
\* The outermost Reconnect of the operation opened a transport, and the
\* server refused its cwd("/").
RootCwdRefused ==
  \E i \in DOMAIN trace :
     /\ trace[i].verb = "connect"
     /\ trace[i].rd = 1
     /\ RootCwdOut(i) = "nak"

\* C1: whenever a transport is present and the caller is between two
\* operations, g_curdirpath equals the working directory the server reports,
\* compared ignoring a trailing "/".
C1_CacheConsistency == (g_ftp = "up" /\ CanCall) => Consistent

\* C4: a Reconnect whose cwd("/") on the new transport is answered with a
\* reply that is no success returns false and leaves g_ftp absent.
C4_RefusedRootLeavesNoTransport ==
  (last.op \in ReconnectOps /\ RootCwdRefused)
    => (last.exc = "none" /\ last.ret = FALSE /\ g_ftp = "none")

\* The verb of each operation that sends one verb of its own, and the calls
\* that are one invocation of the method (FileExists of a path with a
\* directory part calls PathExists, which calls FileExists again).
OwnVerb == [PWD |-> "pwd", CWD |-> "cwd", MKD |-> "mkd", FileExists |-> "nlst"]
OneInvocation ==
  /\ last.op \in DOMAIN OwnVerb
  /\ last.op = "FileExists" => last.arg \in {R_b, P_b}

\* C2: one invocation of a protocol-facing operation sends its verb once,
\* and once more after a Reconnect that succeeded: never a third time.
C2_BoundedRetry ==
  OneInvocation => Cardinality(OwnSends(OwnVerb[last.op])) <= 2

\* C3: an operation that returns a boolean never ends by raising on a
\* non-success reply or a transport failure (a failed assertion, the
\* consistency fault, is allowed to end the process).
BooleanOps == {"CWD", "MKD", "SetDirectory", "FileExists", "PathExists"}
C3_BooleanNeverRaises == last.op \in BooleanOps => last.exc # "error"

\* The cursor, cache and server both, is at the path p.
CursorAt(p) ==
  ComparePaths(g_curdirpath, p) /\ ComparePaths(PathString(srvCwd), p)

\* Some Reconnect of the operation, nested ones included, had its cwd("/")
\* refused.
AnyRootCwdRefused ==
  \E i \in DOMAIN trace : trace[i].verb = "connect" /\ RootCwdOut(i) = "nak"

\* C5: after a Reconnect that returns true the cursor is at the path that
\* was current before it, or at the root "/": never at another directory,
\* such as a prefix of the old path.  (Stated for the Reconnects in which no
\* cwd("/") was refused, the case of C4.)
C5_ReconnectCursor ==
  (/\ last.op \in ReconnectOps
   /\ Returned(last.op)
   /\ last.ret = TRUE
   /\ ~AnyRootCwdRefused)
    => (CursorAt(last.pre.cur) \/ CursorAt(ROOT))

\* C6: a Reconnect with no credentials stored returns false at once: it
\* opens no transport, sends no verb, and leaves g_ftp and g_curdirpath as
\* they were.
C6_NoCredentials ==
  (last.op \in ReconnectOps /\ g_credentials = "empty")
    => /\ last.exc = "none"
       /\ last.ret = FALSE
       /\ \A i \in DOMAIN trace : trace[i].verb = "Reconnect"
       /\ g_ftp = last.pre.ftp
       /\ g_curdirpath = last.pre.cur
       /\ srvCwd = last.pre.cwd
\* A Reconnect without credentials on a session that is connected and away
\* from the root.
C6_Witness ==
  /\ last.op \in ReconnectOps
  /\ g_credentials = "empty"
  /\ last.pre.ftp = "up"
  /\ last.pre.cur # ROOT

\* An absolute path that names a directory of the server.
ExistingAbsolute(p, dirs) ==
  /\ Len(p) > 0
  /\ p[1] = SLASH
  /\ DirExists(dirs, Resolve(<<>>, p))

\* C7: a CWD(p) that returns true, for an absolute path p of an existing
\* directory, leaves the server's working directory and g_curdirpath both
\* equal to p, compared ignoring a trailing "/".  (Stated for the calls in
\* which no Reconnect had its cwd("/") refused, the case of C4.)
C7_CWDReachesPath ==
  (/\ Returned("CWD")
   /\ last.ret = TRUE
   /\ ExistingAbsolute(last.arg, srvDirs)
   /\ ~AnyRootCwdRefused)
    => CursorAt(last.arg)

\* The operation started on a live transport with the cache equal to the
\* server's working directory, and ran with no transport failure and no
\* refusal by the server.
Undisturbed ==
  /\ last.pre.ftp = "up"
  /\ ComparePaths(last.pre.cur, PathString(last.pre.cwd))
  /\ \A i \in DOMAIN trace : trace[i].out \in {"ok", "call"}

\* The mkd verbs of the operation, in the order sent: the name asked for and
\* the server's working directory at that moment.
MkdSent ==
  LET mk == SelectSeq(trace, LAMBDA e : e.verb = "mkd")
  IN [i \in 1..Len(mk) |-> <<mk[i].arg, mk[i].cwd>>]

\* The server paths of the segments of an absolute path: outermost first.
Segments(p) ==
  LET full == Resolve(<<>>, p)
  IN [i \in 1..Len(full) |-> SubSeq(full, 1, i)]

\* C8: SetDirectory(path, Create=True), with an absolute path of several
\* segments none of which exists, creates the directories from the outermost
\* to the innermost, each mkd sent from inside the segment before it, returns
\* true and leaves the cursor at the full path.
C8_CreatesOutermostFirst ==
  (/\ last.op = "SetDirectory"
   /\ last.create
   /\ Undisturbed
   /\ last.arg[1] = SLASH
   /\ Len(Segments(last.arg)) > 1
   /\ \A i \in DOMAIN Segments(last.arg) :
         Segments(last.arg)[i] \notin last.pre.dirs)
    => /\ Returned("SetDirectory")
       /\ last.ret = TRUE
       /\ MkdSent = [i \in DOMAIN Segments(last.arg) |->
                       <<<<Last(Segments(last.arg)[i])>>,
                         Front(Segments(last.arg)[i])>>]
       /\ srvDirs = last.pre.dirs
                      \cup {Segments(last.arg)[i] : i \in DOMAIN Segments(last.arg)}
       /\ CursorAt(last.arg)
\* A SetDirectory that created both segments of "/a/b".
C8_Witness ==
  /\ Returned("SetDirectory")
  /\ last.create
  /\ Undisturbed
  /\ last.arg = P_ab
  /\ last.pre.dirs = {}
  /\ srvDirs = {<<"a">>, <<"a", "b">>}

\* C9: SetDirectory(path, Create=True) called again, from any cursor position
\* and with the server unchanged since the call that made the path, returns
\* true, sends no mkd, leaves the directory tree as it was and the cursor at
\* path.
C9_SetDirectoryIdempotent ==
  (/\ last.op = "SetDirectory"
   /\ last.create
   /\ Undisturbed
   /\ ExistingAbsolute(last.arg, last.pre.dirs))
    => /\ Returned("SetDirectory")
       /\ last.ret = TRUE
       /\ MkdSent = <<>>
       /\ srvDirs = last.pre.dirs
       /\ CursorAt(last.arg)
\* A SetDirectory of an existing "/a/b" called with the cursor elsewhere.
C9_Witness ==
  /\ Returned("SetDirectory")
  /\ last.create
  /\ Undisturbed
  /\ last.arg = P_ab
  /\ <<"a", "b">> \in last.pre.dirs
  /\ last.pre.cwd # <<"a", "b">>

\* The argument of the operation is "/" followed by one name, and nothing
\* of that name was directly under the root when it was called.
AbsentRootName ==
  /\ Len(last.arg) = 2
  /\ last.arg[1] = SLASH
  /\ last.arg[2] \notin {SLASH, "..", " "}
  /\ <<last.arg[2]>> \notin last.pre.dirs
  /\ <<last.arg[2]>> \notin DOMAIN srvFiles

\* C10: FileExists("/" + n), for a name n that is not directly under the
\* root, returns false from every cursor position and leaves g_curdirpath
\* and the server's working directory as they were; FileExists("/") returns
\* true in every state.
C10_FileExistsAtRoot ==
  /\ (last.op = "FileExists" /\ Undisturbed /\ AbsentRootName)
       => /\ Returned("FileExists")
          /\ last.ret = FALSE
          /\ g_curdirpath = last.pre.cur
          /\ srvCwd = last.pre.cwd
  /\ (last.op = "FileExists" /\ last.arg = ROOT)
       => (Returned("FileExists") /\ last.ret = TRUE)

\* The path the call was given named no object (file or directory) on the
\* server, seen from the working directory the call started in.
NamesNothing ==
  LET target == Resolve(last.pre.cwd, last.arg)
  IN /\ target # <<>>
     /\ target \notin DOMAIN last.pre.files
     /\ target \notin last.pre.dirs
StoreUnchanged == srvFiles = last.pre.files /\ srvDirs = last.pre.dirs
Sent(verb) == {i \in DOMAIN trace : trace[i].verb = verb}

\* C11: DeleteFile of a path that names no object on the server returns
\* true, on the first call and on every repeated one, sends no delete verb
\* and leaves the objects of the server as they were.
C11_DeleteAbsent ==
  (last.op = "DeleteFile" /\ NamesNothing /\ Undisturbed)
    => /\ last.exc = "none"
       /\ last.ret = TRUE
       /\ Sent("delete") = {}
       /\ StoreUnchanged

\* GetAsString(f) is called right after a PutString(f, s) that returned
\* true, on a transport that is present; neither call met a transport
\* failure or a refused verb, and the directory of f exists.
PutThenGet ==
  /\ last.op = "GetAsString"
  /\ prev.op = "PutString"
  /\ prev.arg = last.arg
  /\ prev.exc = "none"
  /\ prev.ret = TRUE
  /\ prev.quiet
  /\ Undisturbed
  /\ Resolve(last.pre.cwd, last.arg) # <<>>
  /\ DirExists(last.pre.dirs, Front(Resolve(last.pre.cwd, last.arg)))

\* C12: with a transport present and the cursor not moved in between,
\* PutString(f, s) returning true followed by GetAsString(f) returns
\* exactly s.
C12_RoundTrip ==
  PutThenGet => (last.exc = "none" /\ last.ret = Some(prev.data))

\* The lock record of the path a Lock method was called with: where the
\* server keeps it, and its owner and time stamp in a given store.
RecordPath == Resolve(<<>>, RootedLockName(last.arg))
HasRecord(files) == RecordPath \in DOMAIN files
RecordOwner(files) == (SplitOnce(files[RecordPath]) \o << <<>> >>)[1]
RecordStamp(files) == (SplitOnce(files[RecordPath]) \o << <<>> >>)[2]
\* The directory the record belongs in exists.
Lockable == DirExists(last.pre.dirs, Front(RecordPath))

\* SetLock(path, id) found no record, one with nothing in it, one of id or
\* one of an owner with no name.
OpenToId ==
  \/ ~HasRecord(last.pre.files)
  \/ last.pre.files[RecordPath] = <<>>
  \/ RecordOwner(last.pre.files) = last.data
  \/ RecordOwner(last.pre.files) = <<>>

\* GetLock(path) is called right after a SetLock(path, id) that returned "".
GetAfterSet ==
  /\ last.op = "GetLock"
  /\ prev.op = "SetLock"
  /\ prev.arg = last.arg
  /\ prev.exc = "none"
  /\ prev.ret = <<>>
  /\ prev.quiet
  /\ Undisturbed
  /\ Lockable

HeldByOther ==
  /\ last.op = "SetLock"
  /\ Undisturbed
  /\ Lockable
  /\ HasRecord(last.pre.files)
  /\ RecordOwner(last.pre.files) \notin {<<>>, last.data}
  /\ Parses(RecordStamp(last.pre.files))
\* The age of that record, in ticks, and the 12 hours.
RecordAge == now - strptime(RecordStamp(last.pre.files))
TwelveHours == LockLife * Resolution
Names(text, id) == \A i \in DOMAIN id : \E j \in DOMAIN text : text[j] = id[i]

ReleaseByOther ==
  /\ last.op = "ReleaseLock"
  /\ Undisturbed
  /\ HasRecord(last.pre.files)
  /\ RecordOwner(last.pre.files) \notin {<<>>, last.data}

\* C15: ReleaseLock(path, id) called, from any cursor position, while the
\* record at <path>/Lock names a different owner returns false and leaves
\* the record unchanged.
C15_NonOwnerRelease ==
  ReleaseByOther
    => (last.exc = "none" /\ last.ret = FALSE /\ srvFiles = last.pre.files)

\* ReleaseLock(path, id) is called right after a SetLock(path, id) that
\* returned "", with no transport failure and no refusal in either.
ReleaseAfterSet ==
  /\ last.op = "ReleaseLock"
  /\ prev.op = "SetLock"
  /\ prev.exc = "none"
  /\ prev.ret = <<>>
  /\ prev.quiet
  /\ prev.arg = last.arg
  /\ prev.data = last.data
  /\ Undisturbed
  /\ Lockable
\* GetLock(path) is called right after a ReleaseLock(path, id) that
\* returned true.
GetAfterRelease ==
  /\ last.op = "GetLock"
  /\ prev.op = "ReleaseLock"
  /\ prev.exc = "none"
  /\ prev.ret = TRUE
  /\ prev.quiet
  /\ prev.arg = last.arg
  /\ Undisturbed

\* C16: after SetLock(path, id) has returned the empty string, a
\* ReleaseLock(path, id) with no transport failure deletes the record and
\* returns true, and a GetLock(path) that follows returns ("", "");
\* ReleaseLock returns true only when no record remains at <path>/Lock.
C16_AcquireRelease ==
  /\ ReleaseAfterSet
       => (last.exc = "none" /\ last.ret = TRUE /\ ~HasRecord(srvFiles))
  /\ (last.op = "ReleaseLock" /\ Undisturbed /\ last.exc = "none"
        /\ last.ret = TRUE)
       => ~HasRecord(srvFiles)
  /\ GetAfterRelease => (last.exc = "none" /\ last.ret = << <<>>, <<>> >>)

\* Where the record of the directory the two processes lock is kept.
RaceRecord == Resolve(<<>>, RootedLockName(R_p))
\* Process p has read the record as unlocked (no record, or one without an
\* owner) and its SetLock has returned the empty string.
TookUnlocked(p) ==
  /\ procs[p].pc = "done"
  /\ procs[p].exc = "none"
  /\ procs[p].lockid = <<>>
  /\ procs[p].ret = <<>>
BothTook == procs # <<>> /\ \A p \in Owners : TookUnlocked(p)

\* C17: the lock gives no mutual exclusion on the acquisition race.  When
\* the SetLock calls of two processes with different ids have both read the
\* record as unlocked and both returned the empty string, the record names
\* only the process that wrote last.
C17_LastWriterOwns ==
  BothTook =>
    /\ RaceRecord \in DOMAIN srvFiles
    /\ \E p \in Owners :
         /\ procs[p].wroteLast
         /\ ~procs[Other(p)].wroteLast
         /\ SplitOnce(srvFiles[RaceRecord])[1] = p
         /\ ~Names(srvFiles[RaceRecord], Other(p))

\* Both calls have returned the empty string on the same path, with no
\* release and no time passed in between.
C17_Witness ==
  /\ BothTook
  /\ now = 0
  /\ \A p \in Owners : procs[p].path = R_p
  /\ srvFiles[RaceRecord] = <<"bob", "=">> \o strftime(now)

\* The listings FileExists itself has sent, and the case of the claim: the
\* first failed with a transport failure, and so did the second, sent after
\* a Reconnect that succeeded.
OwnListings == OwnSends("nlst")
ListingFailedTwice ==
  /\ last.op = "FileExists"
  /\ last.arg \in {R_b, P_b}
  /\ Cardinality({i \in OwnListings : trace[i].out = "fail"}) >= 2

\* C18: if the listing of FileExists fails with a transport failure and the
\* listing retried after a successful Reconnect fails as well, FileExists
\* returns false: it neither raises nor reconnects and lists again, so the
\* call ends after a bounded number of listings (two).
C18_FileExistsGivesUp ==
  ListingFailedTwice
    => /\ last.exc = "none"
       /\ last.ret = FALSE
       /\ Cardinality(OwnListings) <= 2

\* The segments of the absolute path SetDirectory was given that did not
\* exist when it was called, and the directory it has to stop in: the one
\* before the first of them.
MissingSegments ==
  {i \in DOMAIN Segments(last.arg) : Segments(last.arg)[i] \notin last.pre.dirs}
StopsAt ==
  LET k == CHOOSE i \in MissingSegments : \A j \in MissingSegments : i <= j
  IN Front(Segments(last.arg)[k])
\* The verbs with which SetDirectory itself makes and enters a segment, and
\* those of them the server refused.
OwnSteps ==
  {i \in DOMAIN trace : trace[i].rd = 0 /\ trace[i].verb \in {"mkd", "cwd"}}
RefusedSteps == {i \in OwnSteps : trace[i].out = "nak"}
LastStep == CHOOSE i \in OwnSteps : \A j \in OwnSteps : j <= i
\* After its last step the call has looked at no further segment.
NothingLater == \A j \in OwnSends("nlst") : j < LastStep
\* The directories the call has made.
Made ==
  {Resolve(trace[i].cwd, trace[i].arg) :
     i \in {j \in DOMAIN trace : trace[j].verb = "mkd" /\ trace[j].out = "ok"}}
\* SetDirectory(path, Create=True) on a live transport, with no transport
\* failure, had the making or the entering of a segment refused.
SegmentRefused ==
  /\ last.op = "SetDirectory"
  /\ last.create
  /\ last.pre.ftp = "up"
  /\ ComparePaths(last.pre.cur, PathString(last.pre.cwd))
  /\ \A i \in DOMAIN trace : trace[i].out # "fail"
  /\ RefusedSteps # {}

AlreadyThere ==
  /\ last.op = "CWD"
  /\ Undisturbed
  /\ ComparePaths(PathString(last.pre.cwd), last.arg)

\* C20: CWD(target) first asks the server for its path with pwd, and when
\* that path equals target (ignoring a trailing separator) it returns true
\* without sending cwd and leaves g_curdirpath and the working directory of
\* the server unchanged.
C20_CWDShortCircuit ==
  /\ last.op = "CWD" => (trace # <<>> /\ trace[1].verb = "pwd")
  /\ AlreadyThere
       => /\ last.exc = "none"
          /\ last.ret = TRUE
          /\ Sent("cwd") = {}
          /\ g_curdirpath = last.pre.cur
          /\ srvCwd = last.pre.cwd

\* CWD("/a/") called in /a.
C20_Witness ==
  /\ AlreadyThere
  /\ last.arg = P_aSlash
  /\ last.ret = TRUE
  /\ Sent("cwd") = {}
  /\ g_curdirpath = P_a

\* DeleteFile(p) was called on a live transport, with the cache equal to
\* the server's working directory, and has returned true.
DeletedTrue ==
  /\ last.op = "DeleteFile"
  /\ last.pre.ftp = "up"
  /\ ComparePaths(last.pre.cur, PathString(last.pre.cwd))
  /\ last.exc = "none"
  /\ last.ret = TRUE
\* The server path p named when the call started.
DeleteTarget == Resolve(last.pre.cwd, last.arg)

\* C24: whenever DeleteFile(p) returns true, no object exists on the server
\* at p afterwards, for a relative name, a root-level path "/n" or a deeper
\* absolute path, from every cursor position, also when a verb of the
\* existence check fails.
C24_DeletedMeansGone ==
  DeletedTrue
    => (DeleteTarget \notin DOMAIN srvFiles /\ DeleteTarget \notin srvDirs)

\* SetLock(path, id) was called on a live transport, with the cache equal
\* to the server's working directory, while the server held a live lock of
\* another owner: a record with a body, an owner with a name that is not
\* id, and a time stamp at most 12 hours old.
LiveLockOfOther ==
  /\ last.op = "SetLock"
  /\ last.pre.ftp = "up"
  /\ ComparePaths(last.pre.cur, PathString(last.pre.cwd))
  /\ HasRecord(last.pre.files)
  /\ last.pre.files[RecordPath] # <<>>
  /\ RecordOwner(last.pre.files) \notin {<<>>, last.data}
  /\ Parses(RecordStamp(last.pre.files))
  /\ RecordAge <= TwelveHours

\* C25: SetLock never writes over a live lock because the record could not
\* be read: in every run, also when the existence check or the download
\* inside GetLock fails, SetLock(path, id) replaces an existing record only
\* if it has an empty body, names id or an empty owner, or is more than 12
\* hours old.
C25_LiveLockKept ==
  LiveLockOfOther
    => (HasRecord(srvFiles)
          /\ srvFiles[RecordPath] = last.pre.files[RecordPath])

\* The operations that name their target relative to the cursor, and the
\* verbs they send for it.
CursorOps == {"MKD", "FileExists", "DeleteFile", "PutString", "GetAsString"}
CursorVerbs == {"mkd", "nlst", "delete", "stor", "retr"}
\* The pairs (first attempt, re-send) of the operation: a verb that raised
\* on a live transport, and the same verb with the same argument sent next,
\* after the Reconnect of the except clause.
ReSent(verb) ==
  {p \in OwnSends(verb) \X OwnSends(verb) :
     /\ p[1] < p[2]
     /\ trace[p[1]].out = "fail"
     /\ trace[p[1]].cwd # <<"?">>
     /\ trace[p[2]].arg = trace[p[1]].arg
     /\ \A k \in OwnSends(verb) : ~(p[1] < k /\ k < p[2])
     /\ \E k \in p[1]..p[2] : trace[k].verb = "Reconnect" /\ trace[k].rd = 0}
\* The re-send reached the server in the directory of the first attempt, or
\* reached no server at all (the new transport broke as well).
SameDirectory(p) ==
  trace[p[2]].cwd \in {trace[p[1]].cwd, <<"?">>}

\* C23: whenever an operation that names its target relative to the cursor
\* sends its verb again after a Reconnect that returned true, the server's
\* working directory at the re-send is the one of the first attempt, so the
\* verb never acts on an object of the same name in another directory.
C23_ResendSameDirectory ==
  (/\ last.op \in CursorOps
   /\ last.pre.ftp = "up"
   /\ ComparePaths(last.pre.cur, PathString(last.pre.cwd)))
    => \A verb \in CursorVerbs : \A p \in ReSent(verb) : SameDirectory(p)

\* The directory DeleteDir(dirname) was called for, and the paths at or
\* below a directory.
DirTarget == Resolve(last.pre.cwd, last.arg)
Within(p, d) == Len(p) >= Len(d) /\ SubSeq(p, 1, Len(d)) = d
\* DeleteDir(dirname) was called, with no fault, for a directory that
\* exists, is not the root and holds nothing but files.
DeleteDirOfFiles ==
  /\ last.op = "DeleteDir"
  /\ Undisturbed
  /\ DirTarget \in last.pre.dirs
  /\ \A q \in last.pre.dirs : Within(q, DirTarget) => q = DirTarget

\* C21: DeleteDir(dirname), for an existing directory that is not the root
\* and holds only files, named by a relative name or by an absolute path,
\* deletes every file in it, removes the directory and returns true;
\* afterwards the directory is not on the server and the cursor is neither
\* at it nor below it.
C21_DeleteDirRemoves ==
  DeleteDirOfFiles
    => /\ last.exc = "none"
       /\ last.ret = TRUE
       /\ DirTarget \notin srvDirs
       /\ \A q \in DOMAIN srvFiles : ~Within(q, DirTarget)
       /\ ~Within(Resolve(<<>>, g_curdirpath), DirTarget)

\* CopyAndRenameFile was called on a live transport, with the cache equal
\* to the server's working directory.
CopyCalled ==
  /\ last.op = "CopyAndRenameFile"
  /\ last.pre.ftp = "up"
  /\ ComparePaths(last.pre.cur, PathString(last.pre.cwd))
\* The source and the destination its arguments name.
CopySource ==
  Resolve(Resolve(<<>>, last.arg.oldpathname), last.arg.oldfilename)
CopyDest ==
  Resolve(Resolve(<<>>, last.arg.newpathname), NewName(last.arg))
\* The last download the call has sent, and whether the server answered it
\* with something other than the banner: another 226 line, or a refusal
\* because no such file is where the verb arrived.
LastRetr ==
  CHOOSE i \in OwnSends("retr") : \A j \in OwnSends("retr") : j <= i
ReplyNotBanner ==
  /\ OwnSends("retr") # {}
  /\ \/ trace[LastRetr].out = "plain"
     \/ /\ trace[LastRetr].out = "ok"
        /\ Resolve(trace[LastRetr].cwd, trace[LastRetr].arg)
             \notin DOMAIN last.pre.files
\* The destination is as it was before the call.
DestUntouched ==
  IF CopyDest \in DOMAIN last.pre.files
  THEN CopyDest \in DOMAIN srvFiles
         /\ srvFiles[CopyDest] = last.pre.files[CopyDest]
  ELSE CopyDest \notin DOMAIN srvFiles

\* C22: CopyAndRenameFile changes the destination only after a download
\* that succeeded: when the reply of the download is not the banner
\* "226-File successfully transferred", letter for letter, it returns false
\* and the destination is neither made nor changed; and it returns true
\* only when newpathname/newfilename is on the server with the content of
\* the source.
C22_CopyAfterDownload ==
  CopyCalled
    => /\ ReplyNotBanner
            => (last.exc = "none" /\ last.ret = FALSE /\ DestUntouched)
       /\ (last.exc = "none" /\ last.ret = TRUE)
            => /\ CopySource \in DOMAIN last.pre.files
               /\ CopyDest \in DOMAIN srvFiles
               /\ srvFiles[CopyDest] = last.pre.files[CopySource]
====
